---- MODULE Spec2Model ----
(***************************************************************************)
(* Key-event classification state machine of the keyboard monitor:         *)
(* State::process (src/src/state_machine.rs) over the Keysym / ModMask     *)
(* value types (src/src/lib.rs).                                           *)
(***************************************************************************)
EXTENDS Naturals, Sequences, FiniteSets

\* ------------------------------------------------------------------ keys
\* Raw keysym values of the keys the repository's tests use.
Caps_Lock == 65509
H == 72
F == 70

Keys == {Caps_Lock, H, F}

\* ------------------------------------------------------------- bit masks
RECURSIVE BitOrRaw(_, _)
BitOrRaw(a, b) ==
    IF a = 0 THEN b
    ELSE IF b = 0 THEN a
    ELSE (IF a % 2 = 1 \/ b % 2 = 1 THEN 1 ELSE 0) + 2 * BitOrRaw(a \div 2, b \div 2)

RECURSIVE BitAndRaw(_, _)
BitAndRaw(a, b) ==
    IF a = 0 \/ b = 0 THEN 0
    ELSE (IF a % 2 = 1 /\ b % 2 = 1 THEN 1 ELSE 0) + 2 * BitAndRaw(a \div 2, b \div 2)

\* impl BitOr<Keysym> for ModMask
bitor(mask, key) == BitOrRaw(mask, key)

\* impl BitAnd<Self> for ModMask, impl BitAnd<Keysym> for ModMask
bitand(mask, key) == BitAndRaw(mask, key)

\* ModMask::empty
empty == 0

\* ModMask::is_empty
is_empty(mask) == mask = 0

\* Option<T>
None == <<>>
Some(x) == <<x>>

\* Keysym::key_char: the character of a printable (Latin-1) keysym, given by
\* its code point; None for the others (function and modifier keys).
key_char(key) == IF key >= 32 /\ key <= 126 THEN Some(key) ELSE None

\* --------------------------------------------------------------- records
\* struct Keystroke
Keystroke(m, k) == [modifiers |-> m, keysym |-> k]

\* struct KeyEvent
KeyEvent(release, state, keysym, unichar, keycode) ==
    [release |-> release, state |-> state, keysym |-> keysym,
     unichar |-> unichar, keycode |-> keycode]

\* enum KeyEventType
Swallow == [kind |-> "Swallow", event |-> None]
ProcessNormally == [kind |-> "ProcessNormally", event |-> None]
SendToAT(ev) == [kind |-> "SendToAT", event |-> Some(ev)]
SendToATAndProcess(ev) == [kind |-> "SendToATAndProcess", event |-> Some(ev)]

\* State::default()
DefaultState ==
    [has_client |-> FALSE, grab_all |-> FALSE, notify_all |-> FALSE,
     modifiers |-> <<>>, pressed_modifiers |-> empty,
     keystrokes |-> <<>>, pressed |-> <<>>]

\* Vec::contains
contains(seq, x) == \E i \in 1..Len(seq) : seq[i] = x

\* Vec::push
push(seq, x) == Append(seq, x)

\* Vec::retain(|k| *k != key)
retain_ne(seq, key) == SelectSeq(seq, LAMBDA k : k # key)

\* ------------------------------------------------------- State::process
\* Variant: the payload's state is the empty mask, not pressed_modifiers.
key_event_inner_no_state(s, key, release) ==
    KeyEvent(release, empty, key, key_char(key), 0)

\* let key_event_inner = KeyEvent { release, keysym: key, unichar, keycode: 0, state }
key_event_inner(s, key, release) ==
    KeyEvent(release, s.pressed_modifiers, key, key_char(key), 0)

\* self.modifiers.contains(&key)
is_mod_global(s, key) == contains(s.modifiers, key)

\* !self.pressed_modifiers.is_empty()
any_pressed_mods(s) == ~is_empty(s.pressed_modifiers)

\* self.pressed.contains(&key)
is_already_pressed(s, key) == contains(s.pressed, key)

\* Variant: every keystroke must match (`all` written for `any`).
is_mod_local_all(s, key) ==
    \A i \in 1..Len(s.keystrokes) :
        bitor(s.keystrokes[i].modifiers, key) = s.keystrokes[i].modifiers

\* .keystrokes.iter().any(|ks| ks.modifiers | key == ks.modifiers)
is_mod_local(s, key) ==
    \E i \in 1..Len(s.keystrokes) :
        bitor(s.keystrokes[i].modifiers, key) = s.keystrokes[i].modifiers

\* Variant: the client gate is missing.
client_gate_missing(s) == FALSE

\* if !self.has_client { return ProcessNormally }
client_gate(s) == ~s.has_client

\* Variant: the release of the global modifier leaves the grab on.
grab_release_stays(s, key_event) == [state |-> s, ret |-> key_event]

\* if self.grab_all && is_mod_global && release { self.grab_all = false; return key_event }
grab_release(s, key_event) ==
    [state |-> [s EXCEPT !.grab_all = FALSE], ret |-> key_event]

\* Variant: a full grab lets the event through.
grab_keep_passes(s, key_event) == [state |-> s, ret |-> ProcessNormally]

\* Variant: any event under a full grab ends the grab.
grab_keep_ends(s, key_event) ==
    [state |-> [s EXCEPT !.grab_all = FALSE], ret |-> key_event]

\* if self.grab_all { return key_event }
grab_keep(s, key_event) == [state |-> s, ret |-> key_event]

\* Variant: notify-all withholds the event from the compositor.
notify_withholds(s, inner) == [state |-> s, ret |-> SendToAT(inner)]

\* if self.notify_all { return SendToATAndProcess(key_event_inner) }
notify(s, inner) == [state |-> s, ret |-> SendToATAndProcess(inner)]

\* Variant: the press also runs the commented-out self.pressed_modifiers |= key.
arm_global_press_accumulates(s, key_event) ==
    [state |-> [s EXCEPT !.grab_all = TRUE,
                         !.pressed_modifiers =
                             bitor(s.pressed_modifiers, key_event.event[1].keysym)],
     ret |-> key_event]

\* (true, _, _, _, false) => { self.grab_all = true; key_event }
arm_global_press(s, key_event) ==
    [state |-> [s EXCEPT !.grab_all = TRUE], ret |-> key_event]

\* (true, _, _, _, true) => { self.grab_all = false; key_event }
arm_global_release(s, key_event) ==
    [state |-> [s EXCEPT !.grab_all = FALSE], ret |-> key_event]

\* (false, true, false, _, false) => { self.pressed.push(key); key_event }
arm_push(s, key, key_event) ==
    [state |-> [s EXCEPT !.pressed = push(s.pressed, key)], ret |-> key_event]

\* (false, true, true, _, true) => { self.pressed.retain(|k| *k != key); key_event }
arm_retain(s, key, key_event) ==
    [state |-> [s EXCEPT !.pressed = retain_ne(s.pressed, key)], ret |-> key_event]

\* (false, false, false, false, _) => ProcessNormally
arm_normal(s) == [state |-> s, ret |-> ProcessNormally]

\* (false, false, _, _, _) | (false, true, false, _, true) | (false, true, true, _, false)
arm_rest(s, key_event) == [state |-> s, ret |-> key_event]

\* Variant: the last arm without its pattern for a repeated press.
rest_pattern_short(g, a, p, l, release) ==
    \/ ~g /\ ~a
    \/ ~g /\ a /\ ~p /\ release

\* The patterns of the last arm:
\* (false, false, _, _, _) | (false, true, false, _, true) | (false, true, true, _, false)
rest_pattern(g, a, p, l, release) ==
    \/ ~g /\ ~a
    \/ ~g /\ a /\ ~p /\ release
    \/ ~g /\ a /\ p /\ ~release

\* No arm of the match takes the tuple.
Unmatched == [kind |-> "unmatched", event |-> None]
no_arm(s) == [state |-> s, ret |-> Unmatched]

\* The match of process, its arms tried in the order they are written.
match_arms(s, key, release, key_event) ==
    LET g == is_mod_global(s, key)
        a == any_pressed_mods(s)
        p == is_already_pressed(s, key)
        l == is_mod_local(s, key)
    IN  IF g /\ ~release THEN arm_global_press(s, key_event)
        ELSE IF g /\ release THEN arm_global_release(s, key_event)
        ELSE IF ~g /\ a /\ ~p /\ ~release THEN arm_push(s, key, key_event)
        ELSE IF ~g /\ a /\ p /\ release THEN arm_retain(s, key, key_event)
        ELSE IF ~g /\ ~a /\ ~p /\ ~l THEN arm_normal(s)
        ELSE IF rest_pattern(g, a, p, l, release) THEN arm_rest(s, key_event)
        ELSE no_arm(s)

\* pub fn process(&mut self, key: Key, release: bool) -> KeyEventType
process(s, key, release) ==
    IF client_gate(s) THEN [state |-> s, ret |-> ProcessNormally]
    ELSE LET inner == key_event_inner(s, key, release)
             key_event == SendToAT(inner)
         IN  IF s.grab_all /\ is_mod_global(s, key) /\ release
                 THEN grab_release(s, key_event)
             ELSE IF s.grab_all THEN grab_keep(s, key_event)
             ELSE IF s.notify_all THEN notify(s, inner)
             ELSE match_arms(s, key, release, key_event)

\* ---------------------------------------------------------------- state
VARIABLES
    has_client, grab_all, notify_all, modifiers, pressed_modifiers,
    keystrokes, pressed,    \* the fields of State
    pre,                    \* the State when the last call (or pair of calls) started
    last,                   \* the last operation and its arguments
    result,                 \* what the last call of process returned
    held,                   \* keys pressed and not yet released
    held_before,            \* held, when the last call of process started
    passed                  \* keys whose latest press reached the compositor

vars == <<has_client, grab_all, notify_all, modifiers, pressed_modifiers,
          keystrokes, pressed, pre, last, result, held, held_before, passed>>

\* The State as one value.
Cur ==
    [has_client |-> has_client, grab_all |-> grab_all, notify_all |-> notify_all,
     modifiers |-> modifiers, pressed_modifiers |-> pressed_modifiers,
     keystrokes |-> keystrokes, pressed |-> pressed]

NoCall == [op |-> "none", key |-> 0, release |-> FALSE]
NoResult == [kind |-> "none", event |-> None]

\* The State is s and no call has been made.
StartAt(s) ==
    /\ has_client = s.has_client
    /\ grab_all = s.grab_all
    /\ notify_all = s.notify_all
    /\ modifiers = s.modifiers
    /\ pressed_modifiers = s.pressed_modifiers
    /\ keystrokes = s.keystrokes
    /\ pressed = s.pressed
    /\ pre = s
    /\ last = NoCall
    /\ result = NoResult
    /\ held = {}
    /\ held_before = {}
    /\ passed = {}

\* The fields of State after a call that gave r.
Apply(r) ==
    /\ has_client' = r.state.has_client
    /\ grab_all' = r.state.grab_all
    /\ notify_all' = r.state.notify_all
    /\ modifiers' = r.state.modifiers
    /\ pressed_modifiers' = r.state.pressed_modifiers
    /\ keystrokes' = r.state.keystrokes
    /\ pressed' = r.state.pressed

\* state.process(key, release): the fields and the returned value.
Call(key, release) ==
    LET r == process(Cur, key, release)
    IN  /\ Apply(r)
        /\ pre' = Cur
        /\ last' = [op |-> "process", key |-> key, release |-> release]
        /\ result' = r.ret

\* The result lets the event through to the compositor.
ToCompositor(r) == r.kind \in {"ProcessNormally", "SendToATAndProcess"}

\* ------------------------------------------------------------- bounds
\* Most items (modifiers, keystrokes, pressed keys together) of a State drawn
\* as a starting point.
AnyItems == 1

\* The union of the keys of S, as mask |= key builds it.
RECURSIVE MaskOf(_)
MaskOf(S) ==
    IF S = {} THEN empty
    ELSE LET k == CHOOSE x \in S : TRUE IN bitor(MaskOf(S \ {k}), k)

\* Masks drawn: the empty mask, each key alone, and all keys together.
Masks == {empty} \cup {MaskOf({k}) : k \in Keys} \cup {MaskOf(Keys)}

\* Keystrokes drawn: no modifier required (as in the tests), one key's bits,
\* every key's bits; any key as the keysym.
StrokeMasks == {empty, MaskOf({F}), MaskOf(Keys)}

Strokes == {Keystroke(m, k) : m \in StrokeMasks, k \in Keys}

SeqsOfLen(S, n) == [1..n -> S]

\* ------------------------------------------- process from any State
\* Every State within the bounds, then any events.
InitAny ==
    \E hc \in BOOLEAN, ga \in BOOLEAN, na \in BOOLEAN, pm \in Masks :
    \E a \in 0..AnyItems :
    \E b \in 0..(AnyItems - a) :
    \E c \in 0..(AnyItems - a - b) :
    \E ms \in SeqsOfLen(Keys, a), ks \in SeqsOfLen(Strokes, b), ps \in SeqsOfLen(Keys, c) :
        StartAt([has_client |-> hc, grab_all |-> ga, notify_all |-> na,
                 modifiers |-> ms, pressed_modifiers |-> pm,
                 keystrokes |-> ks, pressed |-> ps])

Event(key, release) ==
    /\ Call(key, release)
    /\ UNCHANGED <<held, held_before, passed>>

NextAny == \E key \in Keys, release \in BOOLEAN : Event(key, release)

SpecAny == InitAny /\ [][NextAny]_vars

\* ------------------------------------- process on a configured State
\* Most keys of `modifiers`, and most keystrokes, of a configuration.
MaxMods == 2
MaxStrokes == 1

\* Sequences of at most n different elements of S.
DistinctSeqs(S, n) ==
    UNION {{q \in SeqsOfLen(S, m) : \A i, j \in 1..m : q[i] = q[j] => i = j} : m \in 0..n}

\* A session as the tests set it up: State::default(), then modifiers,
\* has_client and keystrokes assigned.
InitFixed ==
    \E ms \in DistinctSeqs(Keys, MaxMods), ks \in DistinctSeqs(Strokes, MaxStrokes) :
        StartAt([DefaultState EXCEPT !.has_client = TRUE, !.modifiers = ms,
                                     !.keystrokes = ks])

\* A key goes down (or repeats): state.process(key, false).
KeyPress(key) ==
    /\ Call(key, FALSE)
    /\ held_before' = held
    /\ held' = held \cup {key}
    /\ passed' = IF ToCompositor(result') THEN passed \cup {key} ELSE passed \ {key}

\* A key that is down goes up: state.process(key, true).
KeyRelease(key) ==
    /\ key \in held
    /\ Call(key, TRUE)
    /\ held_before' = held
    /\ held' = held \ {key}
    /\ passed' = passed

NextFixed == \E key \in Keys : KeyPress(key) \/ KeyRelease(key)

SpecFixed == InitFixed /\ [][NextFixed]_vars

\* --------------------------------- configuration writes and process
\* state.has_client = b
SetClient(b) ==
    /\ has_client' = b
    /\ UNCHANGED <<grab_all, notify_all, modifiers, pressed_modifiers, keystrokes, pressed>>

\* state.modifiers = ms
SetModifiers(ms) ==
    /\ modifiers' = ms
    /\ UNCHANGED <<has_client, grab_all, notify_all, pressed_modifiers, keystrokes, pressed>>

\* state.keystrokes = ks
SetKeystrokes(ks) ==
    /\ keystrokes' = ks
    /\ UNCHANGED <<has_client, grab_all, notify_all, modifiers, pressed_modifiers, pressed>>

\* One write of a configuration field.
Configure ==
    /\ \/ \E b \in BOOLEAN : SetClient(b)
       \/ \E ms \in DistinctSeqs(Keys, MaxMods) : SetModifiers(ms)
       \/ \E ks \in DistinctSeqs(Strokes, MaxStrokes) : SetKeystrokes(ks)
    /\ pre' = Cur'
    /\ last' = [op |-> "configure", key |-> 0, release |-> FALSE]
    /\ result' = NoResult
    /\ UNCHANGED <<held, held_before, passed>>

Init == StartAt(DefaultState)

Next ==
    \/ Configure
    \/ \E key \in Keys, release \in BOOLEAN : Event(key, release)

Spec == Init /\ [][Next]_vars

\* ------------------------- a press and its release, from any State
\* state.process(m, false) for a key m of `modifiers`, as the first call.
PairPress(key) ==
    /\ last.op = "none"
    /\ contains(modifiers, key)
    /\ Call(key, FALSE)
    /\ UNCHANGED <<held, held_before, passed>>

\* state.process(m, true) right after the press of m; pre stays the State
\* before the pair.
PairRelease ==
    /\ last.op = "process"
    /\ LET r == process(Cur, last.key, TRUE)
       IN  /\ Apply(r)
           /\ result' = r.ret
    /\ last' = [op |-> "pair", key |-> last.key, release |-> TRUE]
    /\ UNCHANGED <<pre, held, held_before, passed>>

NextPair == (\E key \in Keys : PairPress(key)) \/ PairRelease

SpecPair == InitAny /\ [][NextPair]_vars

\* ================================================================ claims

\* The payload process builds for the event (key, release) in State s.
Payload(s, key, release) == KeyEvent(release, s.pressed_modifiers, key, key_char(key), 0)

\* The last operation was a call of process on a State with a client.
Processed == last.op = "process" /\ pre.has_client

\* C1: without a client, process returns ProcessNormally for every key and
\* release flag and changes no field of State, whatever the fields hold.
C1_NoClientInvariance ==
    (last.op = "process" /\ ~pre.has_client)
        => (result = ProcessNormally /\ Cur = pre)

\* C1's case: no client, a full grab on, and the release of a global modifier.
C1_Witness ==
    /\ last.op = "process"
    /\ ~pre.has_client
    /\ pre.grab_all
    /\ last.release
    /\ contains(pre.modifiers, last.key)
    /\ result = ProcessNormally

\* C5 as stated: with a client, press then release of a global modifier m
\* returns Swallow twice and leaves pressed_modifiers and grab_all as they
\* were before the pair.
C5_GrabSymmetrySwallow ==
    /\ (Processed /\ ~last.release /\ contains(pre.modifiers, last.key))
           => result = Swallow
    /\ (last.op = "pair" /\ pre.has_client /\ contains(pre.modifiers, last.key))
           => (/\ result = Swallow
               /\ pressed_modifiers = pre.pressed_modifiers
               /\ grab_all = pre.grab_all)

\* What both calls of the pair return, for the State s before it.
PairResult(s, key, release) ==
    IF ~s.grab_all /\ s.notify_all
        THEN SendToATAndProcess(Payload(s, key, release))
        ELSE SendToAT(Payload(s, key, release))

\* C5 as amended: with a client, press then release of a global modifier m
\* each return SendToAT with the event's payload (SendToATAndProcess when
\* notify_all is set and grab_all is not), never Swallow; pressed_modifiers is
\* as before the pair and grab_all is false after it.
C5_GrabPairForwarded ==
    /\ (Processed /\ ~last.release /\ contains(pre.modifiers, last.key))
           => result = PairResult(pre, last.key, FALSE)
    /\ (last.op = "pair" /\ pre.has_client /\ contains(pre.modifiers, last.key))
           => (/\ result = PairResult(pre, last.key, TRUE)
               /\ pressed_modifiers = pre.pressed_modifiers
               /\ grab_all = FALSE)

\* C5's case: the pair has run from a State with a full grab on and a
\* non-empty pressed_modifiers.
C5_Witness ==
    /\ last.op = "pair"
    /\ pre.has_client
    /\ pre.grab_all
    /\ pre.pressed_modifiers # empty
    /\ contains(pre.modifiers, last.key)
    /\ ~grab_all

\* C6: with a client, grab_all false and notify_all true, every event returns
\* SendToATAndProcess carrying its key and release flag, and no field of State
\* changes (so no event starts a grab).
C6_NotifyAll ==
    (Processed /\ ~pre.grab_all /\ pre.notify_all)
        => (/\ result.kind = "SendToATAndProcess"
            /\ result.event[1].keysym = last.key
            /\ result.event[1].release = last.release
            /\ Cur = pre)

\* C6's case: the press of a global modifier in notify-all mode.
C6_Witness ==
    /\ Processed
    /\ ~pre.grab_all
    /\ pre.notify_all
    /\ contains(pre.modifiers, last.key)
    /\ ~last.release
    /\ ~grab_all

ModifierHeldBefore == \E m \in held_before : contains(pre.modifiers, m)

\* C2: with a client and notify_all false, every event processed while a key
\* of `modifiers` is held is withheld from the compositor (neither
\* ProcessNormally nor SendToATAndProcess).
C2_HeldModifierGrabs ==
    (Processed /\ ~pre.notify_all /\ ModifierHeldBefore) => ~ToCompositor(result)

\* C3: with a client and a fixed configuration, the release of a key goes to
\* the compositor only if the latest press of that key went to the compositor.
C3_NoReleaseWithoutPress ==
    (Processed /\ last.release /\ ToCompositor(result)) => last.key \in passed

\* The fields of a payload that the tests' expectations fix for every key.
SameEvent(r, key, release) ==
    /\ r.kind = "SendToAT"
    /\ r.event[1].release = release
    /\ r.event[1].keysym = key
    /\ r.event[1].state = empty
    /\ r.event[1].keycode = 0

KeystrokeBound(s, key) ==
    \E i \in 1..Len(s.keystrokes) :
        /\ s.keystrokes[i].keysym = key
        /\ bitand(s.keystrokes[i].modifiers, s.pressed_modifiers)
               = s.keystrokes[i].modifiers

\* C10: with a client, grab_all and notify_all false and no global modifier
\* held, an event for a key outside `modifiers` is SendToAT exactly when some
\* keystroke has the key as its keysym and its mask within pressed_modifiers,
\* and ProcessNormally otherwise.
C10_KeystrokeContract ==
    (/\ Processed
     /\ ~pre.grab_all
     /\ ~pre.notify_all
     /\ ~ModifierHeldBefore
     /\ ~contains(pre.modifiers, last.key))
        => IF KeystrokeBound(pre, last.key)
               THEN result.kind = "SendToAT"
               ELSE result = ProcessNormally

\* --------------------------------------------- sessions being configured
\* C8: with a client, empty modifiers and keystrokes, grab_all and notify_all
\* false, every event is ProcessNormally and leaves the State unchanged.
C8_PassThroughDefault ==
    (/\ Processed
     /\ pre.modifiers = <<>>
     /\ pre.keystrokes = <<>>
     /\ ~pre.grab_all
     /\ ~pre.notify_all)
        => (result = ProcessNormally /\ Cur = pre)

\* C8's case: a release passes through a State whose modifiers and keystrokes
\* are empty.
C8_Witness ==
    /\ Processed
    /\ pre.modifiers = <<>>
    /\ pre.keystrokes = <<>>
    /\ ~pre.grab_all
    /\ last.release
    /\ result = ProcessNormally

\* C9 (its clause on a detach during a grab; the claim says the same of every
\* field): whenever has_client is false, grab_all is false and pressed and
\* pressed_modifiers are empty.
C9_DetachReset ==
    ~has_client => (~grab_all /\ pressed = <<>> /\ pressed_modifiers = empty)

\* --------------------------------------------------- further claims
\* Some keystroke's mask has every bit of the key's keysym value.
Covered(s, key) ==
    \E i \in 1..Len(s.keystrokes) : bitand(s.keystrokes[i].modifiers, key) = key

\* The general table is reached with nothing tracked: a client, no grab, no
\* notify-all, a key outside `modifiers` and `pressed`, pressed_modifiers empty.
NothingTracked ==
    /\ Processed
    /\ ~pre.grab_all
    /\ ~pre.notify_all
    /\ ~contains(pre.modifiers, last.key)
    /\ pre.pressed_modifiers = empty
    /\ ~contains(pre.pressed, last.key)

C12_GrabTerminatingRelease ==
    /\ (Processed /\ pre.grab_all /\ last.release /\ contains(pre.modifiers, last.key))
           => (/\ result = SendToAT(Payload(pre, last.key, TRUE))
               /\ Cur = [pre EXCEPT !.grab_all = FALSE])
    /\ (last.op = "process" /\ pre.grab_all /\ ~grab_all)
           => (last.release /\ contains(pre.modifiers, last.key))

\* C12's case: the release of a global modifier has ended a full grab that
\* had notify_all set.
C12_Witness ==
    /\ Processed
    /\ pre.grab_all
    /\ pre.notify_all
    /\ last.release
    /\ contains(pre.modifiers, last.key)
    /\ ~grab_all

\* Some key of `modifiers` is down.
ModifierHeld == \E m \in held : contains(modifiers, m)

\* C13: with a client and notify_all false, from State::default(),
\* pressed_modifiers is non-empty exactly when some key of `modifiers` is held.
C13_PressedModifiersTrack ==
    (has_client /\ ~notify_all) => (pressed_modifiers # empty <=> ModifierHeld)

\* C14: with a client and notify_all false, from State::default(), the press
\* of a key outside `modifiers` while a global modifier is held returns
\* SendToAT and leaves the key in `pressed`.
C14_MidGrabPressRecorded ==
    (/\ Processed
     /\ ~pre.notify_all
     /\ ~last.release
     /\ ~contains(pre.modifiers, last.key)
     /\ ModifierHeldBefore)
        => (result.kind = "SendToAT" /\ contains(pressed, last.key))

\* process returned a payload.
Sent == last.op = "process" /\ result.kind \in {"SendToAT", "SendToATAndProcess"}

\* C16: in every payload process returns, unichar is None for a release and
\* the character of the key for a press.
C16_UnicharAbsentOnRelease ==
    Sent => result.event[1].unichar = IF last.release THEN None ELSE key_char(last.key)

\* C17: every payload process returns has the event's release flag and key,
\* keycode 0, and as state the pressed_modifiers of the State the call
\* started from.
C17_PayloadSnapshot ==
    Sent => (/\ result.event[1].release = last.release
             /\ result.event[1].keysym = last.key
             /\ result.event[1].keycode = 0
             /\ result.event[1].state = pre.pressed_modifiers)

\* C17's case: a payload returned from a State whose pressed_modifiers is not
\* empty, by a call that wrote a field.
C17_Witness ==
    /\ Sent
    /\ pre.pressed_modifiers # empty
    /\ Cur # pre

\* C18: for every State and every event, process returns one of Swallow,
\* ProcessNormally, SendToAT and SendToATAndProcess: no tuple of the match is
\* left without an arm.
C18_Total ==
    last.op = "process"
        => result.kind \in {"Swallow", "ProcessNormally", "SendToAT", "SendToATAndProcess"}

\* C18's case: the tuple (false, true, true, _, false), a repeated press of a
\* tracked key, which only the last pattern of the last arm takes.
C18_Witness ==
    /\ Processed
    /\ ~pre.grab_all
    /\ ~pre.notify_all
    /\ ~contains(pre.modifiers, last.key)
    /\ pre.pressed_modifiers # empty
    /\ contains(pre.pressed, last.key)
    /\ ~last.release
    /\ result.kind = "SendToAT"

ReleaseAfterNormalPress ==
    /\ Processed
    /\ ~pre.notify_all
    /\ last.release
    /\ ~contains(pre.modifiers, last.key)
    /\ last.key \in passed

\* C20 as stated: if the press of a key outside `modifiers` was
\* ProcessNormally, its next release is ProcessNormally too, also when a
\* global modifier was pressed in between.
C20_NoStuckKey == ReleaseAfterNormalPress => result = ProcessNormally

\* C20 as amended: such a release is ProcessNormally when no full grab is on
\* as it is processed, and SendToAT (withheld) when one is.
C20_ReleaseFollowsGrab ==
    ReleaseAfterNormalPress
        => result = IF pre.grab_all
                        THEN SendToAT(Payload(pre, last.key, TRUE))
                        ELSE ProcessNormally

\* C20's case: the key went down before the grab and comes up during it.
C20_Witness ==
    /\ ReleaseAfterNormalPress
    /\ pre.grab_all
    /\ ModifierHeldBefore
    /\ result.kind = "SendToAT"

====
